---- MODULE Spec2Model ----
(***************************************************************************)
(* Sync backend: the agent lifecycle (BaseAgent and its concrete agents),  *)
(* the retrieval gate of the RAG system and the ReAct workflow             *)
(* orchestrator, as one state machine.  One action is one synchronous      *)
(* stretch of JavaScript between two awaits.                               *)
(***************************************************************************)
EXTENDS Integers, Sequences, FiniteSets, TLC

(***************************************************************************)
(* Bounds                                                                  *)
(***************************************************************************)
\* largest number of chunks initialize() loads from the corpus directory
MaxChunks == 2
\* largest number of items extractFeedbackItems finds in the retrieved documents
MaxFeedback == 3
\* largest maxSteps a ReActWorkflow is constructed with
MaxStepsArg == 5
\* largest chunkSize and chunkOverlap a RAGSystem is constructed with
MaxChunkSize == 500
MaxChunkOverlap == 5
\* largest number of chunks the store holds
MaxStore == 3
\* largest topK handed to retrieve
MaxTopK == 2
\* latest reading of the clock
MaxNow == 1
\* Math.random() takes the values draw / (MaxDraw + 1), draw in 0..MaxDraw
MaxDraw == 1
\* largest number of execute calls made on one ReActWorkflow instance
MaxExecutions == 2

VARIABLES
  agents,            \* the agent instances of the current request, in order of construction
  wf,                \* the ReActWorkflow instance: maxSteps, enableRAG and the position of execute
  steps,             \* ReActWorkflow.steps
  agentsUsed,        \* execute's local Set agentsUsed, in insertion order
  ragUsed,           \* execute's local ragUsed
  networkAnalysis,   \* execute's local networkAnalysis
  wfResult,          \* what execute's promise settled with
  invoked,           \* history: the run() calls execute has made, in order
  isInitialized,     \* RAGSystem.isInitialized
  docCount,          \* RAGSystem.documents.length
  llmClientInstance, \* whether the LLM client singleton exists
  apiKey,            \* whether GEMINI_API_KEY is set in the environment
  documents,         \* RAGSystem.documents: the chunks of the store, in insertion order
  chunkSize,         \* RAGSystem.chunkSize
  chunkOverlap,      \* RAGSystem.chunkOverlap
  files,             \* the .txt files of the docs directory, in readdirSync order
  pending,           \* the retrieve call suspended at `await this.initialize()`
  ragResult,         \* what the last call on the RAG system or the embedding service settled with
  now,               \* Date.now()
  repairActions,     \* what the last generateRepairActions call returned
  executions,        \* the execute calls made on one workflow instance, with their locals
  arrays,            \* the arrays `this.steps = []` has created, oldest first
  stepsRef           \* this.steps: the place in arrays of the array it refers to

vars == <<agents, wf, steps, agentsUsed, ragUsed, networkAnalysis, wfResult, invoked,
          isInitialized, docCount, llmClientInstance, apiKey,
          documents, chunkSize, chunkOverlap, files, pending, ragResult, now, repairActions,
          executions, arrays, stepsRef>>

envVars == <<isInitialized, docCount, llmClientInstance, apiKey>>
wfVars == <<wf, steps, agentsUsed, ragUsed, networkAnalysis, wfResult, invoked>>
storeVars == <<documents, chunkSize, chunkOverlap, files, pending, ragResult, now>>
overlapVars == <<executions, arrays, stepsRef>>
svcVars == <<storeVars, repairActions, overlapVars>>

(***************************************************************************)
(* JavaScript strings                                                      *)
(***************************************************************************)
UpperChars == "ABCDEFGHIJKLMNOPQRSTUVWXYZ"
LowerChars == "abcdefghijklmnopqrstuvwxyz"

\* the lower-case letter of each upper-case letter
UpperToLower ==
  [c \in {SubSeq(UpperChars, i, i) : i \in 1..26} |->
     LET i == CHOOSE j \in 1..26 : SubSeq(UpperChars, j, j) = c
     IN SubSeq(LowerChars, i, i)]

LowerChar(c) == IF c \in DOMAIN UpperToLower THEN UpperToLower[c] ELSE c

\* String.prototype.toLowerCase, character by character (by halves)
RECURSIVE toLowerCase(_)
toLowerCase(s) ==
  IF Len(s) = 0 THEN ""
  ELSE IF Len(s) = 1 THEN LowerChar(s)
       ELSE toLowerCase(SubSeq(s, 1, Len(s) \div 2))
            \o toLowerCase(SubSeq(s, Len(s) \div 2 + 1, Len(s)))

\* String.prototype.includes: case-sensitive substring test
includes(s, sub) ==
  \E i \in 1..(Len(s) - Len(sub) + 1) : SubSeq(s, i, i + Len(sub) - 1) = sub

\* content.split('\n')
RECURSIVE splitLines(_)
splitLines(s) ==
  IF \A i \in 1..Len(s) : SubSeq(s, i, i) # "\n" THEN <<s>>
  ELSE LET k == CHOOSE i \in 1..Len(s) :
                  /\ SubSeq(s, i, i) = "\n"
                  /\ \A j \in 1..(i - 1) : SubSeq(s, j, j) # "\n"
       IN <<SubSeq(s, 1, k - 1)>> \o splitLines(SubSeq(s, k + 1, Len(s)))

Min(a, b) == IF a < b THEN a ELSE b

\* Set.add on a Set kept in insertion order
\* an add that leaves the set as it is
SetAdd_forget(set, x) == set

SetAdd(set, x) == IF \E i \in 1..Len(set) : set[i] = x THEN set ELSE Append(set, x)

(***************************************************************************)
(* Values                                                                  *)
(***************************************************************************)
Null == [kind |-> "null"]
NoResult == [kind |-> "none"]
NoError == [kind |-> "none"]
Undefined == -1

Roles == {"network_analysis", "self_healing", "customer_analytics", "sentiment",
          "research", "network_region", "editor", "outline"}

\* replies the model provider can give
LLMContents == {
  "All regions healthy",
  "Status: WARNING, latency degraded",
  "Severe issue in us-east\nCritical failure",
  "Type: Negative\nTrend: down",
  "Type: positive\nScore: 90" }

\* queries a caller can hand to the workflow
Queries == {
  "analyze network and customer sentiment",
  "Network status",
  "Customer churn",
  "hello",
  "system feedback",
  "SENTIMENT trends",
  "past outage history",
  "feedback summary" }


(***************************************************************************)
(* RAGSystem: the retrieval gate and the size of a retrieval              *)
(***************************************************************************)
retrievalKeywords ==
  <<"history", "past", "previous", "similar", "outage", "pattern", "customer",
    "feedback", "sentiment", "complaint", "issue", "problem", "competitor",
    "repair", "telemetry", "data", "analysis">>

shouldRetrieve(query) ==
  LET queryLower == toLowerCase(query)
  IN \E i \in 1..Len(retrievalKeywords) : includes(queryLower, retrievalKeywords[i])

\* retrieve(query, topK).documents.length on a store of n chunks
retrieveCount(query, topK, n) ==
  IF ~shouldRetrieve(query) THEN 0 ELSE Min(topK, n)

(***************************************************************************)
(* EmbeddingService: keyword relevance                                     *)
(***************************************************************************)
\* the characters \w matches, after toLowerCase
WordChars == "abcdefghijklmnopqrstuvwxyz0123456789_"

WordCharSet == {SubSeq(WordChars, i, i) : i \in 1..Len(WordChars)}

IsWordChar(c) == c \in WordCharSet

\* a tokenize that keeps only the words longer than seven characters
tokenize_longWords(text) ==
  LET s == toLowerCase(text)
      isWord == [i \in 1..Len(s) |-> IsWordChar(SubSeq(s, i, i))]
      endOf(i) == CHOOSE j \in i..Len(s) :
                    /\ \A k \in i..j : isWord[k]
                    /\ IF j = Len(s) THEN TRUE ELSE ~isWord[j + 1]
      starts == {i \in 1..Len(s) :
                   /\ isWord[i]
                   /\ IF i = 1 THEN TRUE ELSE ~isWord[i - 1]
                   /\ endOf(i) - i + 1 > 7}
      nth(k) == CHOOSE i \in starts : Cardinality({j \in starts : j < i}) = k - 1
  IN [k \in 1..Cardinality(starts) |-> SubSeq(s, nth(k), endOf(nth(k)))]

\* text.toLowerCase().replace(/[^\w\s]/g, ' ').split(/\s+/).filter(word.length > 2):
\* the maximal runs of word characters that are longer than two characters
tokenize(text) ==
  LET s == toLowerCase(text)
      isWord == [i \in 1..Len(s) |-> IsWordChar(SubSeq(s, i, i))]
      endOf(i) == CHOOSE j \in i..Len(s) :
                    /\ \A k \in i..j : isWord[k]
                    /\ IF j = Len(s) THEN TRUE ELSE ~isWord[j + 1]
      starts == {i \in 1..Len(s) :
                   /\ isWord[i]
                   /\ IF i = 1 THEN TRUE ELSE ~isWord[i - 1]
                   /\ endOf(i) - i + 1 > 2}
      nth(k) == CHOOSE i \in starts : Cardinality({j \in starts : j < i}) = k - 1
  IN [k \in 1..Cardinality(starts) |-> SubSeq(s, nth(k), endOf(nth(k)))]

\* Math.log(n) in millionths, for n = 1, 2, ...
LogMicro ==
  <<0, 693147, 1098612, 1386294, 1609437, 1791759, 1945910, 2079441,
    2197224, 2302585, 2397895, 2484906, 2564949, 2639057, 2708050, 2772588,
    2833213, 2890371, 2944438, 2995732, 3044522, 3091042, 3135494, 3178053,
    3218875, 3258096, 3295836, 3332204, 3367295, 3401197, 3433987, 3465735,
    3496507, 3526360, 3555348, 3583518, 3610917, 3637586, 3663561, 3688879,
    3713572, 3737669, 3761200, 3784189, 3806662, 3828641, 3850147, 3871201,
    3891820, 3912023, 3931825, 3951243, 3970291, 3988984, 4007333, 4025351,
    4043051, 4060443, 4077537, 4094344, 4110873, 4127134, 4143134, 4158883,
    4174387, 4189654, 4204692, 4219507, 4234106, 4248495, 4262679, 4276666,
    4290459, 4304065, 4317488, 4330733, 4343805, 4356708, 4369447, 4382026>>

\* the value of 0 / 0
NaN == -1

\* the relevance is matches / |query words| * log(|document words| + 1), here in
\* millionths; the division of 0 by 0 for a query without words gives NaN
calculateRelevance_wordCount(query, document) ==
  LET queryWords == tokenize(query)
      docWords == tokenize(document)
  IN IF Len(docWords) = 0 THEN 0
     ELSE IF Len(queryWords) = 0 THEN NaN
          ELSE LogMicro[Len(docWords) + 1]

calculateRelevance(query, document) ==
  LET queryWords == tokenize(query)
      docWords == tokenize(document)
      docWordSet == {docWords[i] : i \in 1..Len(docWords)}
      matches == Cardinality({i \in 1..Len(queryWords) : queryWords[i] \in docWordSet})
  IN IF Len(docWords) = 0 THEN 0
     ELSE IF Len(queryWords) = 0 THEN NaN
          ELSE (matches * LogMicro[Len(docWords) + 1]) \div Len(queryWords)

(***************************************************************************)
(* RAGSystem: chunking                                                     *)
(***************************************************************************)
WhiteSpace == {" ", "\n", "\t"}

RECURSIVE trimStart(_)
trimStart(s) ==
  IF Len(s) > 0 /\ SubSeq(s, 1, 1) \in WhiteSpace THEN trimStart(SubSeq(s, 2, Len(s))) ELSE s

RECURSIVE trimEnd(_)
trimEnd(s) ==
  IF Len(s) > 0 /\ SubSeq(s, Len(s), Len(s)) \in WhiteSpace
  THEN trimEnd(SubSeq(s, 1, Len(s) - 1)) ELSE s

\* String.prototype.trim
trim(s) == trimEnd(trimStart(s))

\* String.prototype.indexOf, counting from 1; 0 when sub does not occur
indexOf(s, sub) ==
  LET hits == {i \in 1..(Len(s) - Len(sub) + 1) : SubSeq(s, i, i + Len(sub) - 1) = sub}
  IN IF hits = {} THEN 0 ELSE CHOOSE i \in hits : \A j \in hits : i <= j

\* content.split(/\n\n+/): the pieces between runs of two or more newlines
RECURSIVE splitParagraphs(_)
splitParagraphs(s) ==
  IF indexOf(s, "\n\n") = 0 THEN <<s>>
  ELSE LET i == indexOf(s, "\n\n")
           j == CHOOSE k \in (i + 1)..Len(s) :
                  /\ \A h \in i..k : SubSeq(s, h, h) = "\n"
                  /\ IF k = Len(s) THEN TRUE ELSE SubSeq(s, k + 1, k + 1) # "\n"
       IN <<SubSeq(s, 1, i - 1)>> \o splitParagraphs(SubSeq(s, j + 1, Len(s)))

\* currentChunk.split(' ')
RECURSIVE splitWords(_)
splitWords(s) ==
  LET k == indexOf(s, " ")
  IN IF k = 0 THEN <<s>>
     ELSE <<SubSeq(s, 1, k - 1)>> \o splitWords(SubSeq(s, k + 1, Len(s)))

\* words.join(' ')
RECURSIVE joinWords(_)
joinWords(words) ==
  IF Len(words) = 0 THEN ""
  ELSE IF Len(words) = 1 THEN words[1]
       ELSE words[1] \o " " \o joinWords(Tail(words))

\* words.slice(-n): the last n words, and all of them when n is 0 (slice(-0) is
\* slice(0)) or at least their number
sliceLast(words, n) ==
  IF n = 0 \/ n >= Len(words) THEN words
  ELSE SubSeq(words, Len(words) - n + 1, Len(words))

Chunk(content, source, index) == [content |-> content, source |-> source, index |-> index]

\* the carry-over a new chunk starts with
overlapOf(currentChunk) ==
  joinWords(sliceLast(splitWords(currentChunk), chunkOverlap \div 5))

\* the loop of chunkDocument over the paragraphs from the i-th on
RECURSIVE chunkLoop(_, _, _, _, _)
chunkLoop(paragraphs, i, source, chunks, currentChunk) ==
  IF i > Len(paragraphs)
  THEN IF trim(currentChunk) # ""
       THEN Append(chunks, Chunk(trim(currentChunk), source, Len(chunks)))
       ELSE chunks
  ELSE LET paragraph == paragraphs[i]
       IN IF Len(currentChunk) + Len(paragraph) > chunkSize /\ Len(currentChunk) > 0
          THEN chunkLoop(paragraphs, i + 1, source,
                         Append(chunks, Chunk(trim(currentChunk), source, Len(chunks))),
                         overlapOf(currentChunk) \o "\n\n" \o paragraph)
          ELSE chunkLoop(paragraphs, i + 1, source, chunks,
                         currentChunk \o (IF currentChunk # "" THEN "\n\n" ELSE "") \o paragraph)

\* a chunkDocument that starts a new chunk with the carry-over alone
chunkDocument_dropParagraph(content, source) ==
  LET paragraphs == splitParagraphs(content)
      RECURSIVE loop(_, _, _)
      loop(i, chunks, currentChunk) ==
        IF i > Len(paragraphs)
        THEN IF trim(currentChunk) # ""
             THEN Append(chunks, Chunk(trim(currentChunk), source, Len(chunks)))
             ELSE chunks
        ELSE IF Len(currentChunk) + Len(paragraphs[i]) > chunkSize /\ Len(currentChunk) > 0
             THEN loop(i + 1, Append(chunks, Chunk(trim(currentChunk), source, Len(chunks))),
                       overlapOf(currentChunk))
             ELSE loop(i + 1, chunks,
                       currentChunk \o (IF currentChunk # "" THEN "\n\n" ELSE "") \o paragraphs[i])
  IN loop(1, <<>>, "")

chunkDocument(content, source) ==
  chunkLoop(splitParagraphs(content), 1, source, <<>>, "")

(***************************************************************************)
(* RAGSystem: retrieval                                                    *)
(***************************************************************************)
\* the comparator (a, b) => b.score - a.score; a NaN difference counts as 0
compareScore(a, b) == IF a.score = NaN \/ b.score = NaN THEN 0 ELSE b.score - a.score

\* Array.prototype.sort with that comparator: stable, by insertion
RECURSIVE insertSorted(_, _)
insertSorted(sorted, doc) ==
  IF Len(sorted) = 0 THEN <<doc>>
  ELSE IF compareScore(sorted[Len(sorted)], doc) <= 0 THEN Append(sorted, doc)
       ELSE Append(insertSorted(SubSeq(sorted, 1, Len(sorted) - 1), doc), sorted[Len(sorted)])

RECURSIVE sortByScore(_)
sortByScore(docs) ==
  IF Len(docs) = 0 THEN <<>>
  ELSE insertSorted(sortByScore(SubSeq(docs, 1, Len(docs) - 1)), docs[Len(docs)])

\* scoredDocs.slice(0, topK) for topK >= 0
sliceTop(docs, topK) == SubSeq(docs, 1, Min(topK, Len(docs)))

\* a retrieve that scores the store whatever the query is
retrieveFrom_noGate(store, query, topK) ==
  LET scoredDocs == [i \in 1..Len(store) |->
                       [content |-> store[i].content, source |-> store[i].source,
                        score |-> calculateRelevance(query, store[i].content)]]
      retrievedDocs == sliceTop(sortByScore(scoredDocs), topK)
  IN [kind |-> "RAGContext", query |-> query, topK |-> topK, documents |-> retrievedDocs,
      totalRetrieved |-> Len(retrievedDocs), scored |-> Len(store)]

\* a retrieve that takes one document more than topK
retrieveFrom_oneMore(store, query, topK) ==
  IF ~shouldRetrieve(query)
  THEN [kind |-> "RAGContext", query |-> query, topK |-> topK, documents |-> <<>>,
        totalRetrieved |-> 0, scored |-> 0]
  ELSE LET scoredDocs == [i \in 1..Len(store) |->
                            [content |-> store[i].content, source |-> store[i].source,
                             score |-> calculateRelevance(query, store[i].content)]]
           retrievedDocs == sliceTop(sortByScore(scoredDocs), topK + 1)
       IN [kind |-> "RAGContext", query |-> query, topK |-> topK, documents |-> retrievedDocs,
           totalRetrieved |-> Len(retrievedDocs), scored |-> Len(store)]

\* the part of retrieve after the store is initialized; scored counts the
\* calls of calculateRelevance
retrieveFrom(store, query, topK) ==
  IF ~shouldRetrieve(query)
  THEN [kind |-> "RAGContext", query |-> query, topK |-> topK, documents |-> <<>>,
        totalRetrieved |-> 0, scored |-> 0]
  ELSE LET scoredDocs == [i \in 1..Len(store) |->
                            [content |-> store[i].content, source |-> store[i].source,
                             score |-> calculateRelevance(query, store[i].content)]]
           retrievedDocs == sliceTop(sortByScore(scoredDocs), topK)
       IN [kind |-> "RAGContext", query |-> query, topK |-> topK, documents |-> retrievedDocs,
           totalRetrieved |-> Len(retrievedDocs), scored |-> Len(store)]

(***************************************************************************)
(* The steps of the execute methods                                        *)
(***************************************************************************)
OpUpdateState(message, progress) ==
  [op |-> "updateState", status |-> "running", message |-> message, progress |-> progress]
OpLog(level) == [op |-> "log", level |-> level]
OpLogIfDocuments == [op |-> "logIfDocuments"]
OpLogIfLive == [op |-> "logIfLive"]
OpGetLLMClient == [op |-> "getLLMClient"]
OpRetrieve(query, topK) == [op |-> "retrieve", query |-> query, topK |-> topK]
OpGenerate == [op |-> "generate"]
OpExtractFeedbackItems == [op |-> "extractFeedbackItems"]
OpNewSentimentAgent == [op |-> "newSentimentAgent"]
OpForEachItem == [op |-> "forEachItem"]
OpDetermineVerificationStatus == [op |-> "determineVerificationStatus"]

\* NetworkAnalysisAgent.execute with the retrieval milestone set past the next one
NetworkAnalysisAgent_execute_regress(input) ==
  <<OpUpdateState("Initializing network analysis...", 10), OpGetLLMClient>>
  \o (IF input.includeRAG
      THEN <<OpUpdateState("Retrieving historical network data...", 50),
             OpRetrieve("network outage patterns, telemetry data, recent incidents", 2),
             OpLogIfDocuments>>
      ELSE <<>>)
  \o <<OpUpdateState("Analyzing network infrastructure...", 40),
       OpUpdateState("Requesting LLM analysis...", 60),
       OpGenerate,
       OpUpdateState("Processing analysis results...", 80),
       OpUpdateState("Finalizing network analysis...", 95),
       OpLog("info")>>

NetworkAnalysisAgent_execute(input) ==
  <<OpUpdateState("Initializing network analysis...", 10), OpGetLLMClient>>
  \o (IF input.includeRAG
      THEN <<OpUpdateState("Retrieving historical network data...", 20),
             OpRetrieve("network outage patterns, telemetry data, recent incidents", 2),
             OpLogIfDocuments>>
      ELSE <<>>)
  \o <<OpUpdateState("Analyzing network infrastructure...", 40),
       OpUpdateState("Requesting LLM analysis...", 60),
       OpGenerate,
       OpUpdateState("Processing analysis results...", 80),
       OpUpdateState("Finalizing network analysis...", 95),
       OpLog("info")>>

SelfHealingAgent_execute(input) ==
  <<OpUpdateState("Analyzing network issues...", 10)>>
  \o (IF input.useRAG
      THEN <<OpUpdateState("Retrieving historical repair strategies...", 20),
             OpRetrieve("repair outcomes remediation strategies successful patterns", 2),
             OpLogIfDocuments>>
      ELSE <<>>)
  \o <<OpUpdateState("Determining repair strategies...", 40),
       OpUpdateState("Simulating repair execution...", 60),
       OpUpdateState("Verifying system stability...", 85),
       OpDetermineVerificationStatus,
       OpUpdateState("Finalizing self-healing operations...", 95),
       OpLog("info")>>

CustomerAnalyticsAgent_defaultQuery ==
  "customer sentiment feedback positive negative complaints live customer voices pain points delight moments"

CustomerAnalyticsAgent_execute(input) ==
  <<OpUpdateState("Initializing customer analytics...", 10),
    OpUpdateState("Retrieving customer feedback data (static + live)...", 25),
    OpRetrieve(IF input.query # "" THEN input.query ELSE CustomerAnalyticsAgent_defaultQuery, 5),
    OpLog("info"),
    OpLogIfLive,
    OpUpdateState("Analyzing sentiment patterns...", 50),
    OpExtractFeedbackItems,
    OpLog("info"),
    OpUpdateState("Running sentiment analysis...", 70),
    OpNewSentimentAgent,
    OpForEachItem,
    OpUpdateState("Categorizing insights...", 90),
    OpLog("info")>>

SentimentAgent_execute(input) ==
  <<OpUpdateState("Analyzing sentiment...", 30),
    OpGetLLMClient,
    OpUpdateState("Requesting LLM sentiment analysis...", 60),
    OpGenerate,
    OpUpdateState("Processing sentiment results...", 85),
    OpLog("info")>>

ResearchAgent_execute(input) ==
  <<OpUpdateState("Initiating research process...", 15),
    OpLog("info"),
    OpUpdateState("Searching knowledge base...", 40),
    OpRetrieve(input.topic, IF input.depth = "thorough" THEN 5 ELSE 3),
    OpUpdateState("Analyzing retrieved documents...", 70),
    OpLog("info")>>

NetworkRegionAgent_execute(input) ==
  <<OpUpdateState("Initializing regional mapping...", 10),
    OpLog("info"),
    OpUpdateState("Mapping network topology to geographic coordinates...", 30)>>
  \o (IF input.includeRAG
      THEN <<OpUpdateState("Retrieving regional context from knowledge base...", 40),
             OpRetrieve("regional network performance, geographic outages, location-based failures", 2),
             OpLog("info")>>
      ELSE <<>>)
  \o <<OpUpdateState("Generating geographic metadata...", 60),
       OpUpdateState("Finalizing regional map data...", 90),
       OpLog("info")>>

EditorAgent_execute(input) ==
  <<OpUpdateState("Analyzing content...", 20),
    OpLog("info"),
    OpUpdateState("Checking for improvements...", 50),
    OpUpdateState("Finalizing edits...", 85),
    OpLog("info")>>

OutlineAgent_execute(input) ==
  <<OpUpdateState("Creating outline structure...", 20),
    OpLog("info"),
    OpUpdateState("Organizing sections...", 50),
    OpUpdateState("Finalizing outline...", 90),
    OpLog("info")>>

\* the execute method a role's class implements
execute(role, input) ==
  CASE role = "network_analysis" -> NetworkAnalysisAgent_execute(input)
    [] role = "self_healing" -> SelfHealingAgent_execute(input)
    [] role = "customer_analytics" -> CustomerAnalyticsAgent_execute(input)
    [] role = "sentiment" -> SentimentAgent_execute(input)
    [] role = "research" -> ResearchAgent_execute(input)
    [] role = "network_region" -> NetworkRegionAgent_execute(input)
    [] role = "editor" -> EditorAgent_execute(input)
    [] role = "outline" -> OutlineAgent_execute(input)


(***************************************************************************)
(* What the execute methods compute from the model's reply                 *)
(***************************************************************************)
issueKeywords == <<"issue", "problem", "concern", "degradation", "failure">>

\* NetworkAnalysisAgent.extractIssues(content).length
extractIssues(content) ==
  LET lines == splitLines(content)
      hits == {i \in 1..Len(lines) :
                 \E k \in 1..Len(issueKeywords) :
                    includes(toLowerCase(lines[i]), issueKeywords[k])}
  IN Min(Cardinality(hits), 3)

parseAnalysisResponse(content) ==
  LET lowerContent == toLowerCase(content)
      overallStatus ==
        IF includes(lowerContent, "critical") \/ includes(lowerContent, "severe")
        THEN "critical"
        ELSE IF includes(lowerContent, "warning") \/ includes(lowerContent, "degraded")
             THEN "warning"
             ELSE "healthy"
  IN [kind |-> "NetworkAnalysis", overallStatus |-> overallStatus,
      issues |-> extractIssues(content)]

\* the type parseSentimentResponse leaves after the lines from index i on
RECURSIVE sentimentType(_, _, _)
sentimentType(lines, i, type) ==
  IF i > Len(lines) THEN type
  ELSE LET lower == toLowerCase(lines[i])
       IN sentimentType(lines, i + 1,
            IF includes(lower, "type:")
            THEN (IF includes(lower, "negative") THEN "negative" ELSE "positive")
            ELSE type)

parseSentimentResponse(content) ==
  [kind |-> "CustomerInsight", type |-> sentimentType(splitLines(content), 1, "positive")]

determineVerificationStatus(analysis) ==
  IF analysis.overallStatus = "critical" THEN "partial_risk"
  ELSE IF analysis.overallStatus = "warning" THEN "requires_monitoring"
       ELSE "stable"

\* number of plans generateRepairActions keeps of its ten templates
selectedPlans == 3

CountType(insights, type) == Cardinality({i \in 1..Len(insights) : insights[i].type = type})

\* the value execute returns, from the agent's input and execute's locals
executeData(role, input, locals) ==
  CASE role = "network_analysis" -> parseAnalysisResponse(locals.content)
    [] role = "sentiment" -> parseSentimentResponse(locals.content)
    [] role = "self_healing" ->
         [kind |-> "SelfHealingOutput", repairActions |-> selectedPlans,
          verificationStatus |-> determineVerificationStatus(input.networkAnalysis)]
    [] role = "customer_analytics" ->
         [kind |-> "CustomerAnalyticsOutput",
          positiveInsights |-> Min(CountType(locals.insights, "positive"), locals.topK),
          negativeInsights |-> Min(CountType(locals.insights, "negative"), locals.topK),
          totalAnalyzed |-> Len(locals.insights)]
    [] role = "research" -> [kind |-> "RAGContext", documents |-> locals.documents]
    [] role = "network_region" -> [kind |-> "NetworkRegionOutput"]
    [] role = "editor" -> [kind |-> "EditorOutput"]
    [] role = "outline" -> [kind |-> "OutlineOutput"]

(***************************************************************************)
(* BaseAgent                                                               *)
(***************************************************************************)
\* generateCalls counts the calls of llmClient.generate the run has made
NoLocals ==
  [documents |-> 0, content |-> "", items |-> 0, i |-> 0, insights |-> <<>>,
   topK |-> 0, child |-> 0, awaiting |-> FALSE, generateCalls |-> 0]

\* constructor; returned holds the results run() has returned on the instance
\* and firstLog the place in this.logs of the first entry of the current run
BaseAgent_new(role) ==
  [role |-> role, status |-> "idle", message |-> "Agent initialized", progress |-> 0,
   logs |-> <<>>, runs |-> 0, code |-> <<>>, pc |-> 0, input |-> Null,
   locals |-> NoLocals, thrown |-> NoError, result |-> NoResult,
   returned |-> <<>>, firstLog |-> 1]

\* this.logs.push(logEntry): the entry shows in every returned result whose
\* logs field is still the array this.logs
log(ag, level) ==
  [ag EXCEPT !.logs = Append(@, level),
             !.returned = [k \in 1..Len(@) |->
                             IF @[k].sameArray
                             THEN [@[k] EXCEPT !.result.logs = Append(@, level)]
                             ELSE @[k]]]

updateState(ag, status, message, progress) ==
  log([ag EXCEPT !.status = status,
                 !.message = message,
                 !.progress = IF progress # Undefined THEN progress ELSE @],
      "debug")

\* { ...this.state }
StateSnapshot(ag) ==
  [role |-> ag.role, status |-> ag.status, message |-> ag.message, progress |-> ag.progress]

\* the AgentResult run() returns: logs is this.logs itself, state a copy
AgentResult(ag, success, data) ==
  [kind |-> "AgentResult", success |-> success, data |-> data, logs |-> ag.logs,
   state |-> StateSnapshot(ag)]

\* return result: the caller holds the result from now on; returnedLogs and
\* firstLog keep what its logs were on return and where its run began in them
Return(ag, result) ==
  [ag EXCEPT !.pc = 0,
             !.thrown = NoError,
             !.result = result,
             !.returned = Append(@, [result |-> result, sameArray |-> TRUE,
                                     returnedLogs |-> result.logs,
                                     firstLog |-> ag.firstLog])]

\* reset(): a new state object and a new logs array
reset(ag) ==
  [ag EXCEPT !.status = "idle",
             !.message = "Agent reset",
             !.progress = 0,
             !.logs = <<>>,
             !.firstLog = 1,
             !.returned = [k \in 1..Len(@) |-> [@[k] EXCEPT !.sameArray = FALSE]]]

\* run(), up to the call of execute
run_begin(ag, input) ==
  log([ag EXCEPT !.status = "running",
                 !.progress = 0,
                 !.runs = @ + 1,
                 !.firstLog = Len(ag.logs) + 1,
                 !.code = execute(ag.role, input),
                 !.pc = 1,
                 !.input = input,
                 !.locals = [NoLocals EXCEPT
                              !.topK = IF ag.role = "customer_analytics"
                                       THEN (IF input.topK # 0 THEN input.topK ELSE 3)
                                       ELSE 0],
                 !.thrown = NoError,
                 !.result = NoResult],
      "info")

\* run_complete that forgets to set progress to 100
run_complete_keepProgress(ag) ==
  LET done == log([ag EXCEPT !.status = "complete",
                             !.message = "Execution completed successfully"],
                  "info")
  IN Return(done, AgentResult(done, TRUE, executeData(ag.role, ag.input, ag.locals)))

\* run(), after execute has returned
run_complete(ag) ==
  LET done == log([ag EXCEPT !.status = "complete",
                             !.progress = 100,
                             !.message = "Execution completed successfully"],
                  "info")
  IN Return(done, AgentResult(done, TRUE, executeData(ag.role, ag.input, ag.locals)))

\* run_catch that logs the failure as a warning
run_catch_warn(ag) ==
  LET failed == log([ag EXCEPT !.status = "error",
                               !.message = IF ag.thrown.kind = "Error"
                                           THEN ag.thrown.message
                                           ELSE "Unknown error"],
                    "warn")
  IN Return(failed, AgentResult(failed, FALSE, Null))

\* run(), the catch block
run_catch(ag) ==
  LET failed == log([ag EXCEPT !.status = "error",
                               !.message = IF ag.thrown.kind = "Error"
                                           THEN ag.thrown.message
                                           ELSE "Unknown error"],
                    "error")
  IN Return(failed, AgentResult(failed, FALSE, Null))

Throw(ag, message) == [ag EXCEPT !.thrown = [kind |-> "Error", message |-> message]]
Advance(ag) == [ag EXCEPT !.pc = @ + 1]


(***************************************************************************)
(* Initial state: a workflow built with the defaults, nothing loaded yet   *)
(***************************************************************************)
ReActWorkflow_new(maxSteps, enableRAG) ==
  [pc |-> "idle", maxSteps |-> maxSteps, enableRAG |-> enableRAG,
   query |-> "", thought |-> "", action |-> "", agent |-> 0]

Init ==
  /\ agents = <<>>
  /\ wf = ReActWorkflow_new(5, TRUE)
  /\ steps = <<>>
  /\ agentsUsed = <<>>
  /\ ragUsed = FALSE
  /\ networkAnalysis = Null
  /\ wfResult = NoResult
  /\ invoked = <<>>
  /\ isInitialized = FALSE
  /\ docCount = 0
  /\ llmClientInstance = FALSE
  /\ apiKey \in BOOLEAN
  /\ documents = <<>>
  /\ chunkSize = 500
  /\ chunkOverlap = 100
  /\ files = <<>>
  /\ pending = Null
  /\ ragResult = NoResult
  /\ now = 0
  /\ repairActions = <<>>
  /\ executions = <<>>
  /\ arrays = << <<>> >>
  /\ stepsRef = 1

(***************************************************************************)
(* Steps of an agent inside execute                                        *)
(***************************************************************************)
InExecute(a) ==
  /\ a \in 1..Len(agents)
  /\ agents[a].status = "running"
  /\ agents[a].thrown = NoError
  /\ agents[a].pc \in 1..Len(agents[a].code)

CurOp(a) == agents[a].code[agents[a].pc]

\* this.updateState(status, message, progress)
UpdateState(a) ==
  /\ InExecute(a)
  /\ CurOp(a).op = "updateState"
  /\ agents' = [agents EXCEPT ![a] =
                  Advance(updateState(@, CurOp(a).status, CurOp(a).message, CurOp(a).progress))]
  /\ UNCHANGED <<wfVars, envVars>>
  /\ UNCHANGED svcVars

\* this.log(level, ...), unconditional or guarded by what retrieve returned
Log(a) ==
  /\ InExecute(a)
  /\ \/ /\ CurOp(a).op = "log"
        /\ agents' = [agents EXCEPT ![a] = Advance(log(@, CurOp(a).level))]
     \/ /\ CurOp(a).op = "logIfDocuments"
        /\ agents' = [agents EXCEPT ![a] =
                        Advance(IF @.locals.documents > 0 THEN log(@, "info") ELSE @)]
     \/ /\ CurOp(a).op = "logIfLive"
        /\ \E liveSources \in (IF agents[a].locals.documents > 0 THEN BOOLEAN ELSE {FALSE}) :
              agents' = [agents EXCEPT ![a] =
                           Advance(IF liveSources THEN log(@, "info") ELSE @)]
  /\ UNCHANGED <<wfVars, envVars>>
  /\ UNCHANGED svcVars

\* getLLMClient(): the singleton is built on first use and the provider's
\* constructor throws without an API key
GetLLMClient(a) ==
  /\ InExecute(a)
  /\ CurOp(a).op = "getLLMClient"
  /\ IF llmClientInstance \/ apiKey
     THEN /\ llmClientInstance' = TRUE
          /\ agents' = [agents EXCEPT ![a] = Advance(@)]
     ELSE /\ llmClientInstance' = llmClientInstance
          /\ agents' = [agents EXCEPT ![a] =
               Throw(@, "GEMINI_API_KEY environment variable is required for Gemini provider")]
  /\ UNCHANGED <<wfVars, isInitialized, docCount, apiKey>>
  /\ UNCHANGED svcVars

\* await ragSystem.retrieve(query, topK); an uninitialized store is initialized
\* first, which loads the corpus or rethrows the file system's error
Retrieve(a) ==
  /\ InExecute(a)
  /\ CurOp(a).op = "retrieve"
  /\ \/ /\ isInitialized
        /\ agents' = [agents EXCEPT ![a] =
              Advance([@ EXCEPT !.locals.documents =
                 retrieveCount(CurOp(a).query, CurOp(a).topK, docCount)])]
        /\ UNCHANGED <<isInitialized, docCount>>
     \/ /\ ~isInitialized
        /\ \E n \in 0..MaxChunks :
              /\ isInitialized' = TRUE
              /\ docCount' = n
              /\ agents' = [agents EXCEPT ![a] =
                    Advance([@ EXCEPT !.locals.documents =
                       retrieveCount(CurOp(a).query, CurOp(a).topK, n)])]
     \/ /\ ~isInitialized
        /\ agents' = [agents EXCEPT ![a] = Throw(@, "ENOENT: no such file or directory")]
        /\ UNCHANGED <<isInitialized, docCount>>
  /\ UNCHANGED <<wfVars, llmClientInstance, apiKey>>
  /\ UNCHANGED svcVars

\* a generate that is called once more when its first call has failed
Generate_retry(a) ==
  /\ InExecute(a)
  /\ CurOp(a).op = "generate"
  /\ \/ \E content \in LLMContents :
           agents' = [agents EXCEPT ![a] =
              Advance([@ EXCEPT !.locals.content = content, !.locals.generateCalls = @ + 1])]
     \/ agents' = [agents EXCEPT ![a] =
           IF @.locals.generateCalls = 0
           THEN [@ EXCEPT !.locals.generateCalls = @ + 1]
           ELSE Throw([@ EXCEPT !.locals.generateCalls = @ + 1], "Gemini API error")]
  /\ UNCHANGED <<wfVars, envVars>>
  /\ UNCHANGED svcVars

\* await llmClient.generate(...): a reply, or the provider's error
Generate(a) ==
  /\ InExecute(a)
  /\ CurOp(a).op = "generate"
  /\ \/ \E content \in LLMContents :
           agents' = [agents EXCEPT ![a] =
              Advance([@ EXCEPT !.locals.content = content, !.locals.generateCalls = @ + 1])]
     \/ agents' = [agents EXCEPT ![a] =
           Throw([@ EXCEPT !.locals.generateCalls = @ + 1], "Gemini API error")]
  /\ UNCHANGED <<wfVars, envVars>>
  /\ UNCHANGED svcVars

\* feedbackItems = this.extractFeedbackItems(documents)
ExtractFeedbackItems(a) ==
  /\ InExecute(a)
  /\ CurOp(a).op = "extractFeedbackItems"
  /\ \E n \in (IF agents[a].locals.documents > 0 THEN 0..MaxFeedback ELSE {0}) :
        agents' = [agents EXCEPT ![a] = Advance([@ EXCEPT !.locals.items = n])]
  /\ UNCHANGED <<wfVars, envVars>>
  /\ UNCHANGED svcVars

\* const sentimentAgent = new SentimentAgent()
NewSentimentAgent(a) ==
  /\ InExecute(a)
  /\ CurOp(a).op = "newSentimentAgent"
  /\ agents' = Append([agents EXCEPT ![a] =
                         Advance([@ EXCEPT !.locals.child = Len(agents) + 1])],
                      BaseAgent_new("sentiment"))
  /\ UNCHANGED <<wfVars, envVars>>
  /\ UNCHANGED svcVars

\* a loop that throws when the sentiment run of an item has failed
ForEachItem_rethrow(a) ==
  /\ InExecute(a)
  /\ CurOp(a).op = "forEachItem"
  /\ LET ag == agents[a]
         c == ag.locals.child
         n == Min(ag.locals.items, ag.locals.topK * 2)
     IN IF ~ag.locals.awaiting
        THEN IF ag.locals.i < n
             THEN agents' = [agents EXCEPT
                    ![a].locals.awaiting = TRUE,
                    ![c] = run_begin(@, [item |-> ag.locals.i + 1, source |-> "RAG"])]
             ELSE agents' = [agents EXCEPT ![a] = Advance(@)]
        ELSE /\ agents[c].result # NoResult
             /\ agents' = [agents EXCEPT ![a] =
                  IF agents[c].result.success
                  THEN [@ EXCEPT !.locals.awaiting = FALSE,
                                 !.locals.i = @ + 1,
                                 !.locals.insights = Append(@, agents[c].result.data)]
                  ELSE Throw(@, agents[c].result.state.message)]
  /\ UNCHANGED <<wfVars, envVars>>
  /\ UNCHANGED svcVars

\* for (const item of feedbackItems.slice(0, topK * 2)): run the sentiment
\* agent on the item, keep the insight of a successful run
ForEachItem(a) ==
  /\ InExecute(a)
  /\ CurOp(a).op = "forEachItem"
  /\ LET ag == agents[a]
         c == ag.locals.child
         n == Min(ag.locals.items, ag.locals.topK * 2)
     IN IF ~ag.locals.awaiting
        THEN IF ag.locals.i < n
             THEN agents' = [agents EXCEPT
                    ![a].locals.awaiting = TRUE,
                    ![c] = run_begin(@, [item |-> ag.locals.i + 1, source |-> "RAG"])]
             ELSE agents' = [agents EXCEPT ![a] = Advance(@)]
        ELSE /\ agents[c].result # NoResult
             /\ agents' = [agents EXCEPT
                  ![a].locals.awaiting = FALSE,
                  ![a].locals.i = @ + 1,
                  ![a].locals.insights =
                     IF agents[c].result.success
                     THEN Append(@, agents[c].result.data)
                     ELSE @]
  /\ UNCHANGED <<wfVars, envVars>>
  /\ UNCHANGED svcVars

\* this.determineVerificationStatus(input.networkAnalysis): reading
\* overallStatus of a null analysis is a TypeError
DetermineVerificationStatus(a) ==
  /\ InExecute(a)
  /\ CurOp(a).op = "determineVerificationStatus"
  /\ agents' = [agents EXCEPT ![a] =
        IF @.input.networkAnalysis = Null
        THEN Throw(@, "Cannot read properties of null (reading 'overallStatus')")
        ELSE Advance(@)]
  /\ UNCHANGED <<wfVars, envVars>>
  /\ UNCHANGED svcVars

\* execute returned: run() marks the agent complete and resolves
RunComplete(a) ==
  /\ a \in 1..Len(agents)
  /\ agents[a].status = "running"
  /\ agents[a].thrown = NoError
  /\ agents[a].pc = Len(agents[a].code) + 1
  /\ agents' = [agents EXCEPT ![a] = run_complete(@)]
  /\ UNCHANGED <<wfVars, envVars>>
  /\ UNCHANGED svcVars

\* execute threw: run()'s catch block marks the agent failed and resolves
RunCatch(a) ==
  /\ a \in 1..Len(agents)
  /\ agents[a].thrown # NoError
  /\ agents' = [agents EXCEPT ![a] = run_catch(@)]
  /\ UNCHANGED <<wfVars, envVars>>
  /\ UNCHANGED svcVars


(***************************************************************************)
(* Callers that build one agent and run it (the API routes)                *)
(***************************************************************************)
Analyses == {parseAnalysisResponse(c) : c \in LLMContents}

AgentInputs(role) ==
  CASE role = "network_analysis" -> {[includeRAG |-> b] : b \in BOOLEAN}
    [] role = "self_healing" ->
         {[networkAnalysis |-> n, useRAG |-> b] : n \in Analyses, b \in BOOLEAN}
    [] role = "customer_analytics" ->
         {[query |-> "customer sentiment feedback analytics", topK |-> k] : k \in {0, 1, 3}}
    [] role = "sentiment" -> {[source |-> "direct", item |-> 1]}
    [] role = "research" ->
         {[topic |-> t, depth |-> d] :
            t \in {"hello", "past outage history"}, d \in {"quick", "thorough"}}
    [] role = "network_region" ->
         {[networkAnalysis |-> n, includeRAG |-> b] : n \in Analyses, b \in BOOLEAN}
    [] role = "editor" -> {[reviewType |-> t] : t \in {"light", "thorough"}}
    [] role = "outline" -> {[sections |-> 3]}

\* nothing is in flight: no execute is suspended and no agent is running
Quiescent ==
  /\ wf.pc \in {"idle", "done", "rejected"}
  /\ \A a \in 1..Len(agents) : agents[a].status # "running"

\* no request is being served: the objects of the last one have been dropped
Idle ==
  /\ wf.pc = "idle"
  /\ agents = <<>>

\* const agent = new XAgent(); await agent.run(input)
Invoke(role, input) ==
  /\ Idle
  /\ agents' = <<run_begin(BaseAgent_new(role), input)>>
  /\ UNCHANGED <<wfVars, envVars>>
  /\ UNCHANGED svcVars

\* agent.reset(), by the caller that built the agent, once its run has returned
Reset(a) ==
  /\ wf.pc = "idle"
  /\ a \in 1..Len(agents)
  /\ a = 1
  /\ agents[a].status \in {"complete", "error"}
  /\ agents' = [agents EXCEPT ![a] = reset(@)]
  /\ UNCHANGED <<wfVars, envVars>>
  /\ UNCHANGED svcVars

(***************************************************************************)
(* ReActWorkflow                                                           *)
(***************************************************************************)
reason(query, stepNumber) ==
  LET lowerQuery == toLowerCase(query)
  IN IF stepNumber = 1
     THEN IF \/ includes(lowerQuery, "network")
             \/ includes(lowerQuery, "system")
             \/ includes(lowerQuery, "infrastructure")
          THEN "The query is about network/system status. I should analyze the current network infrastructure health."
          ELSE IF \/ includes(lowerQuery, "customer")
                  \/ includes(lowerQuery, "sentiment")
                  \/ includes(lowerQuery, "feedback")
               THEN "The query is about customer insights. I should analyze customer sentiment and feedback patterns."
               ELSE "General query. I should gather relevant context from the knowledge base before proceeding."
     ELSE "Continue with analysis based on previous observations."

determineAction(thought, query) ==
  IF includes(thought, "network") \/ includes(thought, "infrastructure")
  THEN "Run NetworkAnalysisAgent to assess current system health"
  ELSE IF includes(thought, "customer") \/ includes(thought, "sentiment")
       THEN "Run CustomerAnalyticsAgent to extract customer insights"
       ELSE "Run ResearchAgent to retrieve relevant context from knowledge base"

\* the agent execute builds for action1: its role, or "" when no branch matches
firstAgent(action1) ==
  IF includes(action1, "network") THEN "network_analysis"
  ELSE IF includes(action1, "research") \/ includes(action1, "retrieve") THEN "research"
       ELSE ""

\* the condition of step 2 without the toLowerCase
needsCustomerAnalytics_caseSensitive(query) ==
  includes(query, "customer") \/ includes(query, "sentiment")

\* the condition of step 2
needsCustomerAnalytics(query) ==
  includes(toLowerCase(query), "customer") \/ includes(toLowerCase(query), "sentiment")

\* the condition of step 3 firing as well when there is no analysis
needsSelfHealing_orMissing(analysis) ==
  \/ analysis = Null
  \/ analysis.overallStatus = "warning" \/ analysis.overallStatus = "critical"

\* the condition of step 3
needsSelfHealing(analysis) ==
  /\ analysis # Null
  /\ analysis.overallStatus = "warning" \/ analysis.overallStatus = "critical"

Step(stepNumber, thought, action, observation, agentsInvolved) ==
  [stepNumber |-> stepNumber, thought |-> thought, action |-> action,
   observation |-> observation, agentsInvolved |-> agentsInvolved]

\* one run() call of execute, made when the trace held stepsBefore steps
Call(role, input, stepsBefore) == [role |-> role, input |-> input, stepsBefore |-> stepsBefore]

\* new ReActWorkflow(maxSteps, enableRAG)
Construct(maxSteps, enableRAG) ==
  /\ Idle
  /\ wf' = ReActWorkflow_new(maxSteps, enableRAG)
  /\ steps' = <<>>
  /\ UNCHANGED <<agents, agentsUsed, ragUsed, networkAnalysis, wfResult, invoked, envVars>>
  /\ UNCHANGED svcVars

\* execute(input), up to the first await
Execute(query) ==
  /\ Idle
  /\ steps' = <<>>
  /\ agentsUsed' = <<>>
  /\ ragUsed' = FALSE
  /\ networkAnalysis' = Null
  /\ wfResult' = NoResult
  /\ LET thought1 == reason(query, 1)
         action1 == determineAction(thought1, query)
         role == firstAgent(action1)
         input == IF role = "network_analysis"
                  THEN [includeRAG |-> wf.enableRAG]
                  ELSE [topic |-> query, depth |-> "quick"]
     IN /\ wf' = [wf EXCEPT !.pc = "await1", !.query = query, !.thought = thought1,
                            !.action = action1, !.agent = IF role = "" THEN 0 ELSE 1]
        /\ IF role = ""
           THEN agents' = <<>> /\ invoked' = <<>>
           ELSE /\ agents' = <<run_begin(BaseAgent_new(role), input)>>
                /\ invoked' = <<Call(role, input, 0)>>
  /\ UNCHANGED envVars
  /\ UNCHANGED svcVars


\* the observation execute builds from a successful result of the role's agent
Observation(role, data) ==
  CASE role = "" -> [text |-> ""]
    [] role = "network_analysis" ->
         [text |-> "Network analysis completed.", overallStatus |-> data.overallStatus,
          issues |-> data.issues]
    [] role = "research" ->
         [text |-> "Research completed.", documents |-> data.documents]
    [] role = "customer_analytics" ->
         [text |-> "Customer analytics completed.", positive |-> data.positiveInsights,
          negative |-> data.negativeInsights]
    [] role = "self_healing" ->
         [text |-> "Self-healing analysis completed.", repairActions |-> data.repairActions,
          status |-> data.verificationStatus]

\* execute resumes after an awaited run(): it notes the agent, reads
\* result.data (a TypeError when data is null, which rejects execute) and
\* pushes the step.  Step 1 with no agent built pushes an empty observation.
Observe ==
  /\ wf.pc \in {"await1", "await2", "await3"}
  /\ IF wf.agent = 0 THEN TRUE ELSE agents[wf.agent].result # NoResult
  /\ LET role == IF wf.agent = 0 THEN "" ELSE agents[wf.agent].role
         data == IF wf.agent = 0 THEN Null ELSE agents[wf.agent].result.data
         used == IF role = "" THEN agentsUsed ELSE SetAdd(agentsUsed, role)
         step == CASE wf.pc = "await1" ->
                        Step(1, wf.thought, wf.action, Observation(role, data), used)
                   [] wf.pc = "await2" ->
                        Step(2, "Need to analyze customer feedback to extract positive and negative insights",
                             "Run CustomerAnalyticsAgent to extract top insights",
                             Observation(role, data), <<"customer_analytics">>)
                   [] wf.pc = "await3" ->
                        Step(Len(steps) + 1,
                             "Network issues detected. Should initiate self-healing procedures",
                             "Run SelfHealingAgent to generate repair strategies",
                             Observation(role, data), <<"self_healing">>)
         next == CASE wf.pc = "await1" -> "step2"
                   [] wf.pc = "await2" -> "step3"
                   [] wf.pc = "await3" -> "final"
     IN /\ agentsUsed' = used
        /\ ragUsed' = (ragUsed \/ role \in {"research", "customer_analytics"})
        /\ networkAnalysis' = IF role = "network_analysis" THEN data ELSE networkAnalysis
        /\ IF role # "" /\ data = Null
           THEN /\ wf' = [wf EXCEPT !.pc = "rejected"]
                /\ wfResult' = [kind |-> "rejected", error |-> "TypeError"]
                /\ steps' = steps
           ELSE /\ wf' = [wf EXCEPT !.pc = next]
                /\ wfResult' = wfResult
                /\ steps' = Append(steps, step)
  /\ UNCHANGED <<agents, invoked, envVars>>
  /\ UNCHANGED svcVars

\* the conditions of step 2 and step 3: build and run the agent, or skip the step
Decide ==
  /\ wf.pc \in {"step2", "step3"}
  /\ LET wanted == IF wf.pc = "step2"
                   THEN needsCustomerAnalytics(wf.query)
                   ELSE needsSelfHealing(networkAnalysis)
         role == IF wf.pc = "step2" THEN "customer_analytics" ELSE "self_healing"
         input == IF wf.pc = "step2"
                  THEN [query |-> "customer feedback sentiment", topK |-> 3]
                  ELSE [networkAnalysis |-> networkAnalysis, useRAG |-> wf.enableRAG]
     IN IF wanted
        THEN /\ agents' = Append(agents, run_begin(BaseAgent_new(role), input))
             /\ invoked' = Append(invoked, Call(role, input, Len(steps)))
             /\ wf' = [wf EXCEPT !.pc = IF wf.pc = "step2" THEN "await2" ELSE "await3",
                                 !.agent = Len(agents) + 1]
        ELSE /\ wf' = [wf EXCEPT !.pc = IF wf.pc = "step2" THEN "step3" ELSE "final"]
             /\ UNCHANGED <<agents, invoked>>
  /\ UNCHANGED <<steps, agentsUsed, ragUsed, networkAnalysis, wfResult, envVars>>
  /\ UNCHANGED svcVars

\* a final step that is always numbered 3
Synthesize_stepThree ==
  /\ wf.pc = "final"
  /\ steps' = Append(steps,
                Step(3,
                     "All necessary analyses completed. Synthesizing final answer.",
                     "Compile results from all agents",
                     [text |-> "Workflow completed", steps |-> Len(steps),
                      agents |-> Len(agentsUsed)],
                     agentsUsed))
  /\ wfResult' = [kind |-> "ReActResult", query |-> wf.query,
                  totalSteps |-> Len(steps'), agentsUsed |-> agentsUsed,
                  ragUsed |-> ragUsed]
  /\ wf' = [wf EXCEPT !.pc = "done"]
  /\ UNCHANGED <<agents, agentsUsed, ragUsed, networkAnalysis, invoked, envVars>>
  /\ UNCHANGED svcVars

\* the final step, synthesizeFinalAnswer and the returned ReActResult, whose
\* steps field is this.steps itself
Synthesize ==
  /\ wf.pc = "final"
  /\ steps' = Append(steps,
                Step(Len(steps) + 1,
                     "All necessary analyses completed. Synthesizing final answer.",
                     "Compile results from all agents",
                     [text |-> "Workflow completed", steps |-> Len(steps),
                      agents |-> Len(agentsUsed)],
                     agentsUsed))
  /\ wfResult' = [kind |-> "ReActResult", query |-> wf.query,
                  totalSteps |-> Len(steps'), agentsUsed |-> agentsUsed,
                  ragUsed |-> ragUsed]
  /\ wf' = [wf EXCEPT !.pc = "done"]
  /\ UNCHANGED <<agents, agentsUsed, ragUsed, networkAnalysis, invoked, envVars>>
  /\ UNCHANGED svcVars

\* the request is answered: its agents, the settled result and the locals of
\* execute become unreachable; the workflow object keeps its configuration
Release ==
  /\ Quiescent
  /\ ~Idle
  /\ agents' = <<>>
  /\ wf' = ReActWorkflow_new(wf.maxSteps, wf.enableRAG)
  /\ steps' = <<>>
  /\ agentsUsed' = <<>>
  /\ ragUsed' = FALSE
  /\ networkAnalysis' = Null
  /\ wfResult' = NoResult
  /\ invoked' = <<>>
  /\ UNCHANGED envVars
  /\ UNCHANGED svcVars

(***************************************************************************)
(* Specification                                                           *)
(***************************************************************************)
AgentIds == 1..Len(agents)

Next ==
  \/ \E a \in AgentIds : UpdateState(a)
  \/ \E a \in AgentIds : Log(a)
  \/ \E a \in AgentIds : GetLLMClient(a)
  \/ \E a \in AgentIds : Retrieve(a)
  \/ \E a \in AgentIds : Generate(a)
  \/ \E a \in AgentIds : ExtractFeedbackItems(a)
  \/ \E a \in AgentIds : NewSentimentAgent(a)
  \/ \E a \in AgentIds : ForEachItem(a)
  \/ \E a \in AgentIds : DetermineVerificationStatus(a)
  \/ \E a \in AgentIds : RunComplete(a)
  \/ \E a \in AgentIds : RunCatch(a)
  \/ \E role \in Roles : \E input \in AgentInputs(role) : Invoke(role, input)
  \/ \E a \in AgentIds : Reset(a)
  \/ \E maxSteps \in 1..MaxStepsArg : \E enableRAG \in BOOLEAN : Construct(maxSteps, enableRAG)
  \/ \E query \in Queries : Execute(query)
  \/ Observe
  \/ Decide
  \/ Synthesize
  \/ Release

Spec == Init /\ [][Next]_vars

TypeOK ==
  /\ \A a \in 1..Len(agents) :
        /\ agents[a].role \in Roles
        /\ agents[a].status \in {"idle", "running", "complete", "error"}
        /\ agents[a].progress \in 0..100
  /\ wf.pc \in {"idle", "await1", "step2", "await2", "step3", "await3", "final", "done", "rejected"}
  /\ wf.maxSteps \in 1..MaxStepsArg
  /\ isInitialized \in BOOLEAN
  /\ docCount \in Nat
  /\ Len(documents) <= MaxStore

(***************************************************************************)
(* The RAG system and the embedding service on their own: the store, its   *)
(* corpus directory and the calls the routes and agents make on them       *)
(***************************************************************************)
File(file, content, readable) == [file |-> file, content |-> content, readable |-> readable]

\* the docs directories considered: empty, one file, a file that cannot be
\* read after one that can, two readable files
Corpora ==
  { <<>>,
    <<File("dallas.txt", "Outage in Dallas caused high latency.", TRUE)>>,
    <<File("a.txt", "ab cd\n\nef gh", TRUE), File("b.txt", "", FALSE)>>,
    <<File("a.txt", "ab cd\n\nef gh", TRUE),
      File("notes.txt", "customer issue in Dallas", TRUE)>> }

\* documents handed to addDocument
Contents == {"ab \n\ncdefg\n", ""}

Sources == {"notes"}

\* queries handed to retrieve
RagQueries == {"Dallas outage pattern", "hello", "Customer ISSUE history"}

\* queries handed to calculateRelevance
RelevanceQueries == RagQueries \cup {"at"}

Issue(type, description, mentions, sentiment, trend, summary) ==
  [type |-> type, description |-> description, mentions |-> mentions,
   sentiment |-> sentiment, trend |-> trend, summary |-> summary]

\* issue lists handed to addCustomerVoices
IssueLists ==
  { <<>>,
    <<Issue("negative", "slow data", 5, 20, "down", "lag")>> }

\* the constructor arguments considered
ChunkSizes == {6, MaxChunkSize}
ChunkOverlaps == {0, MaxChunkOverlap}

\* the loop of initialize() over the files from the i-th on: the chunks pushed
\* so far stay in the store when readFileSync throws
RECURSIVE loadFiles(_, _, _)
loadFiles(i, store, chunked) ==
  IF i > Len(files) THEN [documents |-> store, chunked |-> chunked, thrown |-> FALSE]
  ELSE IF ~files[i].readable THEN [documents |-> store, chunked |-> chunked, thrown |-> TRUE]
       ELSE LET chunks == chunkDocument(files[i].content, files[i].file)
            IN loadFiles(i + 1, store \o chunks,
                         Append(chunked, [content |-> files[i].content,
                                          source |-> files[i].file, chunks |-> chunks]))

\* initialize(): the store, the flag and whether the call threw
initialize ==
  IF isInitialized
  THEN [documents |-> documents, chunked |-> <<>>, thrown |-> FALSE, isInitialized |-> TRUE]
  ELSE LET loaded == loadFiles(1, documents, <<>>)
       IN [documents |-> loaded.documents, chunked |-> loaded.chunked,
           thrown |-> loaded.thrown, isInitialized |-> ~loaded.thrown]

Rejected(op) == [kind |-> "rejected", op |-> op]
Void(op, chunked) == [kind |-> "void", op |-> op, chunked |-> chunked]

\* the text addCustomerVoices builds from the issues of one type
RECURSIVE formatIssues(_, _)
formatIssues(issues, idx) ==
  IF idx > Len(issues) THEN ""
  ELSE ToString(idx) \o ". " \o issues[idx].description \o "\n"
       \o "   Mentions: " \o ToString(issues[idx].mentions) \o "\n"
       \o "   Sentiment: " \o ToString(issues[idx].sentiment) \o "/100\n"
       \o "   Trend: " \o issues[idx].trend \o "\n"
       \o "   Summary: " \o issues[idx].summary \o "\n\n"
       \o formatIssues(issues, idx + 1)

formatCustomerVoices(issues, time) ==
  LET positiveIssues == SelectSeq(issues, LAMBDA i : i.type = "positive")
      negativeIssues == SelectSeq(issues, LAMBDA i : i.type = "negative")
  IN "LIVE CUSTOMER VOICES - " \o ToString(time) \o "\n\n"
     \o (IF Len(negativeIssues) > 0
         THEN "PAIN POINTS (" \o ToString(Len(negativeIssues)) \o " issues):\n\n"
              \o formatIssues(negativeIssues, 1)
         ELSE "")
     \o (IF Len(positiveIssues) > 0
         THEN "MOMENTS OF DELIGHT (" \o ToString(Len(positiveIssues)) \o " issues):\n\n"
              \o formatIssues(positiveIssues, 1)
         ELSE "")

liveSource(time) == "live_customer_voices_" \o ToString(time)

startsWith(s, prefix) == Len(s) >= Len(prefix) /\ SubSeq(s, 1, Len(prefix)) = prefix

\* no call is being answered
Settled == ragResult = NoResult

RagInit ==
  /\ agents = <<>>
  /\ wf = ReActWorkflow_new(5, TRUE)
  /\ steps = <<>>
  /\ agentsUsed = <<>>
  /\ ragUsed = FALSE
  /\ networkAnalysis = Null
  /\ wfResult = NoResult
  /\ invoked = <<>>
  /\ isInitialized = FALSE
  /\ docCount = 0
  /\ llmClientInstance = FALSE
  /\ apiKey = TRUE
  /\ documents = <<>>
  /\ chunkSize \in ChunkSizes
  /\ chunkOverlap \in ChunkOverlaps
  /\ files \in Corpora
  /\ pending = Null
  /\ ragResult = NoResult
  /\ now = 0
  /\ repairActions = <<>>
  /\ executions = <<>>
  /\ arrays = << <<>> >>
  /\ stepsRef = 1

\* await ragSystem.initialize(), from the server's start-up and the routes
Initialize ==
  /\ Settled
  /\ LET done == initialize
     IN /\ Len(done.documents) <= MaxStore
        /\ documents' = done.documents
        /\ isInitialized' = done.isInitialized
        /\ docCount' = Len(done.documents)
        /\ ragResult' = IF done.thrown THEN Rejected("initialize")
                        ELSE Void("initialize", done.chunked)
  /\ UNCHANGED <<wfVars, agents, llmClientInstance, apiKey, chunkSize, chunkOverlap, files,
                 pending, now, repairActions, overlapVars>>

\* ragSystem.retrieve(query, topK) up to its return or, on a store that is not
\* initialized, up to `await this.initialize()`
RetrieveCall(query, topK) ==
  /\ Settled
  /\ pending = Null
  /\ LET done == initialize
     IN /\ Len(done.documents) <= MaxStore
        /\ documents' = done.documents
        /\ isInitialized' = done.isInitialized
        /\ docCount' = Len(done.documents)
        /\ IF isInitialized
           THEN /\ ragResult' = retrieveFrom(documents, query, topK)
                /\ pending' = pending
           ELSE IF done.thrown
                THEN /\ ragResult' = Rejected("retrieve")
                     /\ pending' = pending
                ELSE /\ ragResult' = ragResult
                     /\ pending' = [query |-> query, topK |-> topK]
  /\ UNCHANGED <<wfVars, agents, llmClientInstance, apiKey, chunkSize, chunkOverlap, files,
                 now, repairActions, overlapVars>>

\* the rest of retrieve once the await has resumed
RetrieveResume ==
  /\ Settled
  /\ pending # Null
  /\ ragResult' = retrieveFrom(documents, pending.query, pending.topK)
  /\ pending' = Null
  /\ UNCHANGED <<wfVars, agents, envVars, documents, chunkSize, chunkOverlap, files, now,
                 repairActions, overlapVars>>

\* embeddingService.calculateRelevance(query, document); the service keeps no
\* state, so its calls are made before anything is loaded
CalculateRelevance(query, document) ==
  /\ Settled
  /\ documents = <<>>
  /\ ~isInitialized
  /\ ragResult' = [kind |-> "number", query |-> query, document |-> document,
                   score |-> calculateRelevance(query, document)]
  /\ UNCHANGED <<wfVars, agents, envVars, documents, chunkSize, chunkOverlap, files, pending,
                 now, repairActions, overlapVars>>

\* an addDocument that puts the new chunks in front of the store
AddDocument_prepend(content, source) ==
  /\ Settled
  /\ LET chunks == chunkDocument(content, source)
     IN /\ Len(documents) + Len(chunks) <= MaxStore
        /\ documents' = chunks \o documents
        /\ docCount' = Len(documents) + Len(chunks)
        /\ ragResult' = Void("addDocument",
                             <<[content |-> content, source |-> source, chunks |-> chunks]>>)
  /\ UNCHANGED <<wfVars, agents, isInitialized, llmClientInstance, apiKey, chunkSize,
                 chunkOverlap, files, pending, now, repairActions, overlapVars>>

\* ragSystem.addDocument(content, source)
AddDocument(content, source) ==
  /\ Settled
  /\ LET chunks == chunkDocument(content, source)
     IN /\ Len(documents) + Len(chunks) <= MaxStore
        /\ documents' = documents \o chunks
        /\ docCount' = Len(documents) + Len(chunks)
        /\ ragResult' = Void("addDocument",
                             <<[content |-> content, source |-> source, chunks |-> chunks]>>)
  /\ UNCHANGED <<wfVars, agents, isInitialized, llmClientInstance, apiKey, chunkSize,
                 chunkOverlap, files, pending, now, repairActions, overlapVars>>

\* ragSystem.addCustomerVoices(issues), at a reading of the clock that is not
\* earlier than the last one
AddCustomerVoices(issues, time) ==
  /\ Settled
  /\ time >= now
  /\ now' = time
  /\ LET content == formatCustomerVoices(issues, time)
         source == liveSource(time)
         chunks == IF Len(issues) = 0 THEN <<>> ELSE chunkDocument(content, source)
     IN /\ Len(documents) + Len(chunks) <= MaxStore
        /\ documents' = documents \o chunks
        /\ docCount' = Len(documents) + Len(chunks)
        /\ ragResult' = Void("addCustomerVoices",
                             IF Len(issues) = 0 THEN <<>>
                             ELSE <<[content |-> content, source |-> source, chunks |-> chunks]>>)
  /\ UNCHANGED <<wfVars, agents, isInitialized, llmClientInstance, apiKey, chunkSize,
                 chunkOverlap, files, pending, repairActions, overlapVars>>

\* what clearLiveCustomerVoices reports: beforeCount - afterCount
Cleared(count) ==
  [kind |-> "void", op |-> "clearLiveCustomerVoices", chunked |-> <<>>, cleared |-> count]

\* a clearLiveCustomerVoices that empties the store
ClearLiveCustomerVoices_all ==
  /\ Settled
  /\ documents' = <<>>
  /\ docCount' = 0
  /\ ragResult' = Cleared(Len(documents))
  /\ UNCHANGED <<wfVars, agents, isInitialized, llmClientInstance, apiKey, chunkSize,
                 chunkOverlap, files, pending, now, repairActions, overlapVars>>

\* ragSystem.clearLiveCustomerVoices()
ClearLiveCustomerVoices ==
  /\ Settled
  /\ documents' = SelectSeq(documents, LAMBDA doc : ~startsWith(doc.source, "live_customer_voices_"))
  /\ docCount' = Len(documents')
  /\ ragResult' = Cleared(Len(documents) - Len(documents'))
  /\ UNCHANGED <<wfVars, agents, isInitialized, llmClientInstance, apiKey, chunkSize,
                 chunkOverlap, files, pending, now, repairActions, overlapVars>>

\* the caller has taken the result
Respond ==
  /\ ~Settled
  /\ ragResult' = NoResult
  /\ UNCHANGED <<wfVars, agents, envVars, documents, chunkSize, chunkOverlap, files, pending,
                 now, repairActions, overlapVars>>

RagNext ==
  \/ Initialize
  \/ \E query \in RagQueries : \E topK \in 0..MaxTopK : RetrieveCall(query, topK)
  \/ RetrieveResume
  \/ \E query \in RelevanceQueries : \E content \in Contents : CalculateRelevance(query, content)
  \/ \E content \in Contents : \E source \in Sources : AddDocument(content, source)
  \/ \E issues \in IssueLists : \E time \in 0..MaxNow : AddCustomerVoices(issues, time)
  \/ ClearLiveCustomerVoices
  \/ Respond

RagSpec == RagInit /\ [][RagNext]_vars

(***************************************************************************)
(* SelfHealingAgent.generateRepairActions on its own                       *)
(***************************************************************************)
Plan(baseCost, baseDowntime, baseCustomers) ==
  [baseCost |-> baseCost, baseDowntime |-> baseDowntime, baseCustomers |-> baseCustomers]

\* the ten repair plan templates, by their base values
allRepairPlans ==
  <<Plan(12500, 15, 8500), Plan(7200, 5, 25000), Plan(5800, 3, 12000),
    Plan(9400, 8, 18000), Plan(4200, 2, 5000), Plan(3500, 1, 8000),
    Plan(6800, 4, 15000), Plan(11000, 12, 22000), Plan(8900, 6, 10000),
    Plan(18000, 60, 150000)>>

\* the values Math.random() takes, as draw / (MaxDraw + 1): the smallest one, 0,
\* and the largest one below 1; randomize is monotone in the draw, so that
\* every other draw gives a value between those of these two
Draws == {0, MaxDraw}

\* Math.floor(min + Math.random() * (max - min)) with min = 0.8 * base and
\* max = 1.2 * base, in exact arithmetic
randomize(base, draw) ==
  (8 * base * (MaxDraw + 1) + 4 * base * draw) \div (10 * (MaxDraw + 1))

\* a selection that may take a template more than once
Selections_withRepeats == [1..selectedPlans -> 1..Len(allRepairPlans)]

\* the first plans of the shuffled templates: sort() with any comparator
\* permutes the copy, so that the plans taken are distinct templates
Selections ==
  {order \in [1..selectedPlans -> 1..Len(allRepairPlans)] :
     \A i, j \in 1..selectedPlans : order[i] = order[j] => i = j}

Fields == {"estimatedCost", "estimatedDowntime", "affectedCustomers"}

\* the actions made of the selected plans, each field with its own draw
generateRepairActions(order, draws) ==
  [index \in 1..selectedPlans |->
     [id |-> index,
      plan |-> order[index],
      estimatedCost |-> randomize(allRepairPlans[order[index]].baseCost,
                                  draws[index]["estimatedCost"]),
      estimatedDowntime |-> randomize(allRepairPlans[order[index]].baseDowntime,
                                      draws[index]["estimatedDowntime"]),
      affectedCustomers |-> randomize(allRepairPlans[order[index]].baseCustomers,
                                      draws[index]["affectedCustomers"]),
      isRecommended |-> (index = 1)]]

RepairInit ==
  /\ Init
  /\ apiKey = TRUE

\* generateRepairActions(analysis), for every outcome of the shuffle and of the
\* draws
GenerateRepairActions ==
  /\ repairActions = <<>>
  /\ \E order \in Selections : \E draws \in [1..selectedPlans -> [Fields -> Draws]] :
        repairActions' = generateRepairActions(order, draws)
  /\ UNCHANGED <<wfVars, agents, envVars, storeVars, overlapVars>>

\* the caller has taken the actions
ReturnRepairActions ==
  /\ repairActions # <<>>
  /\ repairActions' = <<>>
  /\ UNCHANGED <<wfVars, agents, envVars, storeVars, overlapVars>>

RepairNext ==
  \/ GenerateRepairActions
  \/ ReturnRepairActions

RepairSpec == RepairInit /\ [][RepairNext]_vars


(***************************************************************************)
(* Several execute calls on one ReActWorkflow instance.  this.steps is a   *)
(* field of the instance, the other variables of execute are locals of    *)
(* the call; the agent a call awaits settles with any result of its role. *)
(***************************************************************************)
\* the locals of an execute call; pushed holds the steps the call has pushed
\* and overlapped tells whether another call was in flight during this one
Execution(query) ==
  [pc |-> "start", query |-> query, thought |-> reason(query, 1),
   action |-> determineAction(reason(query, 1), query), role |-> "",
   agentsUsed |-> <<>>, ragUsed |-> FALSE, networkAnalysis |-> Null,
   result |-> NoResult, pushed |-> <<>>, overlapped |-> FALSE]

\* result.data of a successful run of the role's agent
AgentData(role) ==
  CASE role = "network_analysis" -> Analyses
    [] role = "research" -> {[kind |-> "RAGContext", documents |-> n] : n \in 0..1}
    [] role = "customer_analytics" ->
         {[kind |-> "CustomerAnalyticsOutput", positiveInsights |-> n,
           negativeInsights |-> 0, totalAnalyzed |-> n] : n \in 0..1}
    [] role = "self_healing" ->
         {[kind |-> "SelfHealingOutput", repairActions |-> selectedPlans,
           verificationStatus |-> status] : status \in {"partial_risk", "requires_monitoring"}}

InFlight(call) == call.pc \in {"await1", "await2", "await3"}

\* this.steps.push(step), this.steps being the array at ref
execute_push(call, heap, ref, step) ==
  [call |-> [call EXCEPT !.pushed = Append(@, step)],
   heap |-> [heap EXCEPT ![ref] = Append(@, step)]]

\* the final step and the returned ReActResult, whose steps is this.steps
execute_final(call, heap, ref) ==
  LET done == execute_push(call, heap, ref,
                Step(Len(heap[ref]) + 1,
                     "All necessary analyses completed. Synthesizing final answer.",
                     "Compile results from all agents",
                     [text |-> "Workflow completed", steps |-> Len(heap[ref]),
                      agents |-> Len(call.agentsUsed)],
                     call.agentsUsed))
  IN [call |-> [done.call EXCEPT
                  !.pc = "done",
                  !.result = [kind |-> "ReActResult", query |-> call.query, steps |-> ref,
                              totalSteps |-> Len(done.heap[ref]),
                              agentsUsed |-> call.agentsUsed, ragUsed |-> call.ragUsed]],
      heap |-> done.heap]

\* step 3: run SelfHealingAgent on an unhealthy analysis, or go on to the end
execute_step3(call, heap, ref) ==
  IF needsSelfHealing(call.networkAnalysis)
  THEN [call |-> [call EXCEPT !.pc = "await3", !.role = "self_healing"], heap |-> heap]
  ELSE execute_final(call, heap, ref)

\* step 2: run CustomerAnalyticsAgent for a customer query, or go on to step 3
execute_step2(call, heap, ref) ==
  IF needsCustomerAnalytics(call.query)
  THEN [call |-> [call EXCEPT !.pc = "await2", !.role = "customer_analytics"], heap |-> heap]
  ELSE execute_step3(call, heap, ref)

\* execute(input) from its call to its first await or, when no agent is
\* awaited, to its return; heap[ref] is the new array of `this.steps = []`
execute_begin(query, heap, ref) ==
  LET call == Execution(query)
      role == firstAgent(call.action)
  IN IF role # ""
     THEN [call |-> [call EXCEPT !.pc = "await1", !.role = role], heap |-> heap]
     ELSE LET first == execute_push(call, heap, ref,
                         Step(1, call.thought, call.action, Observation("", Null), <<>>))
          IN execute_step2(first.call, first.heap, ref)

\* execute from the return of the awaited run() to the next await or to its
\* end: a failed run has data null, and reading it is a TypeError
execute_resume(call, data, heap, ref) ==
  IF data = Null
  THEN [call |-> [call EXCEPT !.pc = "rejected",
                              !.result = [kind |-> "rejected", error |-> "TypeError"]],
        heap |-> heap]
  ELSE LET used == SetAdd(call.agentsUsed, call.role)
           noted == [call EXCEPT
                       !.agentsUsed = used,
                       !.ragUsed = (@ \/ call.role \in {"research", "customer_analytics"}),
                       !.networkAnalysis = IF call.role = "network_analysis" THEN data ELSE @]
       IN CASE call.pc = "await1" ->
                 LET first == execute_push(noted, heap, ref,
                                Step(1, call.thought, call.action,
                                     Observation(call.role, data), used))
                 IN execute_step2(first.call, first.heap, ref)
            [] call.pc = "await2" ->
                 LET second == execute_push(noted, heap, ref,
                                 Step(2, "Need to analyze customer feedback to extract positive and negative insights",
                                      "Run CustomerAnalyticsAgent to extract top insights",
                                      Observation(call.role, data), <<"customer_analytics">>))
                 IN execute_step3(second.call, second.heap, ref)
            [] call.pc = "await3" ->
                 LET third == execute_push(noted, heap, ref,
                                Step(Len(heap[ref]) + 1,
                                     "Network issues detected. Should initiate self-healing procedures",
                                     "Run SelfHealingAgent to generate repair strategies",
                                     Observation(call.role, data), <<"self_healing">>))
                 IN execute_final(third.call, third.heap, ref)

OverlapInit ==
  /\ Init
  /\ apiKey = TRUE

\* workflow.execute({query}) on the instance, whatever its earlier calls are doing
ExecuteCall(query) ==
  /\ Len(executions) < MaxExecutions
  /\ LET ref == Len(arrays) + 1
         begun == execute_begin(query, Append(arrays, <<>>), ref)
         overlaps == \E e \in 1..Len(executions) : InFlight(executions[e])
     IN /\ executions' =
             Append([e \in 1..Len(executions) |->
                       IF InFlight(executions[e])
                       THEN [executions[e] EXCEPT !.overlapped = TRUE]
                       ELSE executions[e]],
                    [begun.call EXCEPT !.overlapped = overlaps])
        /\ arrays' = begun.heap
        /\ stepsRef' = ref
  /\ UNCHANGED <<wfVars, agents, envVars, storeVars, repairActions>>

\* the run() a call awaits has returned, with the data of a successful run or
\* with null
ExecuteResume(e) ==
  /\ e \in 1..Len(executions)
  /\ InFlight(executions[e])
  /\ \E data \in AgentData(executions[e].role) \cup {Null} :
        LET resumed == execute_resume(executions[e], data, arrays, stepsRef)
        IN /\ executions' = [executions EXCEPT ![e] = resumed.call]
           /\ arrays' = resumed.heap
  /\ UNCHANGED <<wfVars, agents, envVars, storeVars, repairActions, stepsRef>>

OverlapNext ==
  \/ \E query \in Queries : ExecuteCall(query)
  \/ \E e \in 1..MaxExecutions : ExecuteResume(e)

OverlapSpec == OverlapInit /\ [][OverlapNext]_vars


(***************************************************************************)
(* Properties                                                              *)
(***************************************************************************)
Range(seq) == {seq[i] : i \in 1..Len(seq)}

\* the query contains the word, case-insensitively
Mentions(query, word) == includes(toLowerCase(query), word)

\* the run() calls execute has made on agents of the role
CallsOf(role) == {i \in 1..Len(invoked) : invoked[i].role = role}

\* agentsInvolved of the steps, flattened in step order
RECURSIVE FlatAgents(_)
FlatAgents(trace) ==
  IF trace = <<>> THEN <<>>
  ELSE Head(trace).agentsInvolved \o FlatAgents(Tail(trace))

FirstIndex(seq, x) == CHOOSE i \in 1..Len(seq) : seq[i] = x /\ \A j \in 1..(i - 1) : seq[j] # x

ExecuteSettled == wf.pc \in {"done", "rejected"}

\* C1: when an agent run by execute returns a failed result, execute does not
\* throw: it is not rejected, and once it has settled a ReActResult was
\* returned whose trace holds the step of that agent
C1_FailedAgentDoesNotAbortExecute ==
  \A a \in AgentIds :
    (/\ a = wf.agent
     /\ agents[a].result # NoResult
     /\ ~agents[a].result.success)
    => /\ wf.pc # "rejected"
       /\ wf.pc = "done" =>
            /\ wfResult.kind = "ReActResult"
            /\ \E i \in 1..Len(steps) : agents[a].role \in Range(steps[i].agentsInvolved)

\* C2: whenever execute has thrown, run() resolves with success=false,
\* data=null, a state snapshot with status 'error' and the error's message,
\* and logs holding an error-level entry
C2_RunResolvesWithFailure ==
  [][\A a \in AgentIds :
       agents[a].thrown # NoError =>
         /\ a <= Len(agents')
         /\ agents'[a].result # NoResult
         /\ agents'[a].result.success = FALSE
         /\ agents'[a].result.data = Null
         /\ agents'[a].result.state.status = "error"
         /\ agents'[a].result.state.message = agents[a].thrown.message
         /\ agents'[a].status = "error"
         /\ "error" \in Range(agents'[a].logs)]_vars

C2_Witness ==
  \E a \in AgentIds :
    /\ agents[a].result # NoResult
    /\ ~agents[a].result.success
    /\ agents[a].result.state.message = "Gemini API error"

\* the role the claim assigns to the query's keyword bucket
C3_Bucket(query) ==
  IF Mentions(query, "network") \/ Mentions(query, "system") \/ Mentions(query, "infrastructure")
  THEN "network_analysis"
  ELSE IF Mentions(query, "customer") \/ Mentions(query, "sentiment") \/ Mentions(query, "feedback")
       THEN "customer_analytics"
       ELSE "research"

\* C3: once step 1 is in the trace, exactly one run() was made for step 1, on
\* the agent of the query's keyword bucket, and its role is in step 1's
\* agentsInvolved
C3_StepOneRunsBucketAgent ==
  Len(steps) >= 1 =>
    /\ Cardinality({i \in 1..Len(invoked) : invoked[i].stepsBefore = 0}) = 1
    /\ invoked[1].role = C3_Bucket(wf.query)
    /\ C3_Bucket(wf.query) \in Range(steps[1].agentsInvolved)

\* C4: for a query containing 'network' and 'customer' or 'sentiment', the
\* returned trace's flattened agentsInvolved holds network_analysis and
\* customer_analytics, the first network_analysis before the first
\* customer_analytics
C4_NetworkBeforeCustomerInTrace ==
  (/\ wf.pc = "done"
   /\ Mentions(wf.query, "network")
   /\ Mentions(wf.query, "customer") \/ Mentions(wf.query, "sentiment"))
  => LET flat == FlatAgents(steps)
     IN /\ "network_analysis" \in Range(flat)
        /\ "customer_analytics" \in Range(flat)
        /\ FirstIndex(flat, "network_analysis") < FirstIndex(flat, "customer_analytics")

\* C5: run() is invoked at most once on an agent instance, so that no
\* instance goes back to running after it was complete or error
C5_RunInvokedOncePerInstance ==
  \A a \in AgentIds : agents[a].runs <= 1

\* C6: from the 0 that run() sets to the returned snapshot, no step of a run
\* lowers the agent's progress
C6_ProgressNonDecreasing ==
  [][\A a \in AgentIds :
       (agents[a].status \in {"idle", "running"} /\ a <= Len(agents')) =>
         /\ agents'[a].progress >= agents[a].progress
         /\ agents'[a].result # NoResult =>
              agents'[a].result.state.progress >= agents[a].progress]_vars

C6_Witness ==
  \E a \in AgentIds :
    /\ agents[a].role = "network_analysis"
    /\ agents[a].input.includeRAG
    /\ agents[a].result # NoResult
    /\ agents[a].result.success
    /\ agents[a].result.state.progress = 100

C8_TotalStepsAtMostMaxSteps ==
  wf.pc = "done" => wfResult.totalSteps <= wf.maxSteps

\* C9: in a workflow run whose query contains 'customer' or 'sentiment',
\* CustomerAnalyticsAgent.run is invoked exactly once: never twice, and once
\* by the time execute has settled
C9_CustomerAnalyticsRunsOnce ==
  (Mentions(wf.query, "customer") \/ Mentions(wf.query, "sentiment")) =>
    /\ Cardinality(CallsOf("customer_analytics")) <= 1
    /\ ExecuteSettled => Cardinality(CallsOf("customer_analytics")) = 1

C9_Witness ==
  /\ wf.pc = "done"
  /\ wf.query = "Customer churn"
  /\ Cardinality(CallsOf("customer_analytics")) = 1

\* the health analysis the workflow holds asks for remediation
C10_Unhealthy ==
  /\ networkAnalysis # Null
  /\ networkAnalysis.overallStatus \in {"warning", "critical"}

Successes(c) ==
  Cardinality({k \in 1..Len(agents[c].returned) : agents[c].returned[k].result.success})

\* C24: an agent that calls the model provider calls generate at most once in
\* a run, and when that call has failed the run has made exactly that one
\* call and returns a failed result with status 'error'
C24_GenerateFailureFailsRunOnce ==
  \A a \in AgentIds :
    agents[a].role \in {"network_analysis", "sentiment"} =>
      /\ agents[a].locals.generateCalls <= 1
      /\ (agents[a].thrown # NoError /\ agents[a].thrown.message = "Gemini API error")
            => agents[a].locals.generateCalls = 1
      /\ (agents[a].result # NoResult /\ agents[a].result.state.message = "Gemini API error")
            => /\ agents[a].result.success = FALSE
               /\ agents[a].result.state.status = "error"
               /\ agents[a].locals.generateCalls = 1

C24_Witness ==
  \E a \in AgentIds :
    /\ agents[a].role = "network_analysis"
    /\ agents[a].result # NoResult
    /\ agents[a].result.success = FALSE
    /\ agents[a].result.state.status = "error"
    /\ agents[a].result.state.message = "Gemini API error"
    /\ agents[a].result.state.progress = 60
    /\ agents[a].locals.generateCalls = 1

\* C25: the logs of a returned result stay what they were when run() returned
\* and hold entries of the run that produced the result only
C25_ReturnedLogsOwnedByResult ==
  \A a \in AgentIds :
    \A k \in 1..Len(agents[a].returned) :
      /\ agents[a].returned[k].result.logs = agents[a].returned[k].returnedLogs
      /\ agents[a].returned[k].firstLog = 1

\* the step of the synthesis
IsSynthesis(step) == step.action = "Compile results from all agents"

NoKeyword(query) ==
  \A i \in 1..Len(retrievalKeywords) : ~includes(toLowerCase(query), retrievalKeywords[i])

\* the query and the text have a token in common
SharesToken(query, content) ==
  Range(tokenize(query)) \cap Range(tokenize(content)) # {}

\* a retrieve call has returned
Retrieved == ragResult.kind = "RAGContext"

\* the documents a chunkDocument call of the last operation was given, with
\* the chunks it made of them
Chunked == IF ragResult.kind = "void" THEN ragResult.chunked ELSE <<>>

\* the number of chunks in the store that come from the source
CountOf(source) == Cardinality({j \in 1..Len(documents) : documents[j].source = source})

C12_NoKeywordNoRetrieval ==
  /\ \A query \in RagQueries : NoKeyword(query) => ~shouldRetrieve(query)
  /\ (Retrieved /\ NoKeyword(ragResult.query)) =>
        /\ ragResult.documents = <<>>
        /\ ragResult.totalRetrieved = 0
        /\ ragResult.scored = 0

C12_Witness ==
  /\ Retrieved
  /\ ragResult.query = "hello"
  /\ Len(documents) >= 2
  /\ ragResult.totalRetrieved = 0
  /\ ragResult.scored = 0

\* C13: when a query passes the gate with topK >= 1 and some chunk of the store
\* shares a token with it, the first returned document has a positive score,
\* and a chunk sharing no token is returned only after every chunk of the
\* store that shares one; the one-chunk Dallas corpus queried with
\* "Dallas outage pattern" returns exactly that chunk with a positive score
C13_SharedTokenRanksFirst ==
  (Retrieved /\ ~NoKeyword(ragResult.query) /\ ragResult.topK >= 1) =>
    LET docs == ragResult.documents
        sharing == {j \in 1..Len(documents) : SharesToken(ragResult.query, documents[j].content)}
    IN /\ sharing # {} => (Len(docs) >= 1 /\ docs[1].score > 0)
       /\ \A i \in 1..Len(docs) :
            ~SharesToken(ragResult.query, docs[i].content) =>
               Cardinality({k \in 1..(i - 1) : SharesToken(ragResult.query, docs[k].content)})
                 = Cardinality(sharing)
       /\ (ragResult.query = "Dallas outage pattern"
           /\ Len(documents) = 1
           /\ documents[1].content = "Outage in Dallas caused high latency.") =>
             (Len(docs) = 1 /\ docs[1].score > 0)

C13_Witness ==
  /\ Retrieved
  /\ ragResult.query = "Dallas outage pattern"
  /\ ragResult.topK = 1
  /\ Len(documents) = 1
  /\ documents[1].content = "Outage in Dallas caused high latency."
  /\ Len(ragResult.documents) = 1
  /\ ragResult.documents[1].score > 0

\* C14: whatever calls of initialize (direct or through retrieve) were made,
\* the store holds the chunks of each corpus file at most once, and exactly
\* once when the store is initialized
C14_CorpusLoadedOnce ==
  \A f \in 1..Len(files) :
    LET once == Len(chunkDocument(files[f].content, files[f].file))
    IN /\ CountOf(files[f].file) <= once
       /\ isInitialized => CountOf(files[f].file) = once

\* C15: an initialize() call on a directory with a file that cannot be read does
\* not throw, marks the store initialized and has the other files loaded
C15_UnreadableFileSkipped ==
  (ragResult.kind \in {"void", "rejected"} /\ ragResult.op = "initialize") =>
    /\ ragResult.kind = "void"
    /\ isInitialized
    /\ \A f \in 1..Len(files) :
         files[f].readable =>
            CountOf(files[f].file) >= Len(chunkDocument(files[f].content, files[f].file))

\* C16: no two chunks of the store have the same source and index
C16_SourceIndexUnique ==
  \A i, j \in 1..Len(documents) :
    (documents[i].source = documents[j].source /\ documents[i].index = documents[j].index)
      => i = j

\* C17: every chunk of the store has at most chunkSize characters
C17_ChunkWithinChunkSize ==
  \A i \in 1..Len(documents) : Len(documents[i].content) <= chunkSize

\* the paragraphs from the i-th on can be found, each in one chunk, in chunks
\* from the c-th on, in the order of the paragraphs
RECURSIVE InOrder(_, _, _, _)
InOrder(paragraphs, chunks, i, c) ==
  IF i > Len(paragraphs) THEN TRUE
  ELSE \E d \in c..Len(chunks) :
          /\ includes(chunks[d].content, paragraphs[i])
          /\ \A e \in c..(d - 1) : ~includes(chunks[e].content, paragraphs[i])
          /\ InOrder(paragraphs, chunks, i + 1, d)

\* the paragraphs of a document: the pieces between its blank lines
Paragraphs(content) == SelectSeq(splitParagraphs(content), LAMBDA p : p # "")

\* the paragraphs without their surrounding white space, those of white space
\* only left out
TrimmedParagraphs(content) ==
  LET paragraphs == splitParagraphs(content)
      kept == SelectSeq(paragraphs, LAMBDA p : trim(p) # "")
  IN [i \in 1..Len(kept) |-> trim(kept[i])]

\* C18 as stated: every paragraph of a chunked document appears intact in some
\* chunk, in chunks that follow the order of the paragraphs
C18_ParagraphsIntactInOrder ==
  \A k \in 1..Len(Chunked) :
    InOrder(Paragraphs(Chunked[k].content), Chunked[k].chunks, 1, 1)

\* C18: every paragraph of a chunked document appears, without its leading and
\* trailing white space, intact in some chunk, in chunks that follow the order
\* of the paragraphs
C18_TrimmedParagraphsInOrder ==
  \A k \in 1..Len(Chunked) :
    InOrder(TrimmedParagraphs(Chunked[k].content), Chunked[k].chunks, 1, 1)

C18_Witness ==
  /\ ragResult.kind = "void"
  /\ ragResult.op = "addDocument"
  /\ chunkSize = 6
  /\ Chunked[1].content = "ab \n\ncdefg\n"
  /\ Len(Chunked[1].chunks) = 2
  /\ Chunked[1].chunks[2].content = "cdefg"

\* C19: calculateRelevance never returns NaN and returns 0 when the document
\* or the query has no token
C19_RelevanceOfEmptyIsZero ==
  ragResult.kind = "number" =>
    /\ ragResult.score # NaN
    /\ (tokenize(ragResult.document) = <<>> \/ tokenize(ragResult.query) = <<>>)
          => ragResult.score = 0

\* the first sequence is the beginning of the second
IsPrefix(before, after) ==
  Len(before) <= Len(after) /\ SubSeq(after, 1, Len(before)) = before

\* the step is an addDocument call
AddDocumentStep ==
  ragResult = NoResult /\ ragResult'.kind = "void" /\ ragResult'.op = "addDocument"

\* the step is retrieve running: from its call to its return or to the await
\* of initialize(), and from there to its return
RetrieveStep ==
  /\ ragResult = NoResult
  /\ \/ ragResult'.kind = "RAGContext"
     \/ ragResult'.kind = "rejected" /\ ragResult'.op = "retrieve"
     \/ pending = Null /\ pending' # Null

\* the step is a clearLiveCustomerVoices call
ClearStep ==
  ragResult = NoResult /\ ragResult'.kind = "void" /\ ragResult'.op = "clearLiveCustomerVoices"

\* C22 as stated: an addDocument call leaves the chunks the store held as the
\* beginning of the new store, and retrieve leaves the store as it was
C22_AddDocumentAppendsRetrieveReads ==
  [][/\ AddDocumentStep => IsPrefix(documents, documents')
     /\ RetrieveStep => documents' = documents]_vars

\* C22: an addDocument call leaves the chunks the store held as the beginning
\* of the new store; so does retrieve, which leaves an initialized store as it
\* was (on a store not yet initialized it runs initialize() first, and that
\* appends the chunks of the corpus)
C22_AddDocumentAppendsRetrieveKeeps ==
  [][/\ AddDocumentStep => IsPrefix(documents, documents')
     /\ RetrieveStep => /\ IsPrefix(documents, documents')
                        /\ isInitialized => documents' = documents]_vars

C22_Witness ==
  /\ ragResult.kind = "void"
  /\ ragResult.op = "addDocument"
  /\ pending # Null
  /\ Len(ragResult.chunked[1].chunks) = 2
  /\ Len(documents) = 3
  /\ documents[1].source = "dallas.txt"
  /\ documents[3].source = "notes"

\* the chunks of the store whose source does not start with the prefix of the
\* live customer voices, in the order of the store
WithoutLive(store) ==
  LET kept == {i \in 1..Len(store) : ~startsWith(store[i].source, "live_customer_voices_")}
      nth(k) == CHOOSE i \in kept : Cardinality({j \in kept : j < i}) = k - 1
  IN [k \in 1..Cardinality(kept) |-> store[nth(k)]]

\* C23: clearLiveCustomerVoices leaves exactly the chunks whose source does not
\* start with live_customer_voices_, unchanged and in their order, and every
\* other operation leaves the chunks the store held as its beginning
C23_OnlyClearRemovesLiveChunks ==
  [][/\ ClearStep => documents' = WithoutLive(documents)
     /\ ~ClearStep => IsPrefix(documents, documents')]_vars

C23_Witness ==
  /\ ragResult.kind = "void"
  /\ ragResult.op = "clearLiveCustomerVoices"
  /\ ragResult.cleared = 1
  /\ Len(documents) = 2
  /\ documents[1].source = "dallas.txt"
  /\ documents[2].source = "notes"

\* C29: when retrieve has scored chunks the query has a token, and every score
\* of the result is a number that is not negative
C29_ScoresDefinedThroughRetrieve ==
  (Retrieved /\ shouldRetrieve(ragResult.query)) =>
    /\ tokenize(ragResult.query) # <<>>
    /\ \A i \in 1..Len(ragResult.documents) :
         ragResult.documents[i].score # NaN /\ ragResult.documents[i].score >= 0

C29_Witness ==
  /\ Retrieved
  /\ shouldRetrieve(ragResult.query)
  /\ ragResult.scored = 3
  /\ Len(ragResult.documents) = 2
  /\ ragResult.documents[1].score > 0
  /\ ragResult.documents[2].score = 0

(***************************************************************************)
(* Properties of generateRepairActions (RepairSpec)                        *)
(***************************************************************************)
\* the value is within 20% of the base: 0.8 * base <= value <= 1.2 * base
WithinTwentyPercent(value, base) == 8 * base <= 10 * value /\ 10 * value <= 12 * base

\* C20: every estimatedCost, estimatedDowntime and affectedCustomers of a
\* returned action is within 20% of the base value of the action's template
C20_ValuesWithinTwentyPercent ==
  \A i \in 1..Len(repairActions) :
    LET plan == allRepairPlans[repairActions[i].plan]
    IN /\ WithinTwentyPercent(repairActions[i].estimatedCost, plan.baseCost)
       /\ WithinTwentyPercent(repairActions[i].estimatedDowntime, plan.baseDowntime)
       /\ WithinTwentyPercent(repairActions[i].affectedCustomers, plan.baseCustomers)

\* C21: a returned list of repair actions has exactly 3 actions, made from 3
\* distinct templates, and exactly one of them has isRecommended = true
C21_ThreeDistinctOneRecommended ==
  repairActions # <<>> =>
    /\ Len(repairActions) = 3
    /\ \A i, j \in 1..Len(repairActions) :
         repairActions[i].plan = repairActions[j].plan => i = j
    /\ Cardinality({i \in 1..Len(repairActions) : repairActions[i].isRecommended}) = 1

C21_Witness ==
  /\ Len(repairActions) = 3
  /\ repairActions[1].plan = 10
  /\ repairActions[1].isRecommended
  /\ repairActions[2].plan = 6
  /\ repairActions[2].estimatedDowntime = 0
  /\ ~repairActions[3].isRecommended

\* C30: a result returned by an execute call that overlapped another call on
\* the instance has as steps the steps the call itself pushed, numbered from 1
\* without gap, and as totalSteps their number
C30_OverlappingResultsHoldOwnSteps ==
  \A e \in 1..Len(executions) :
    (executions[e].pc = "done" /\ executions[e].overlapped) =>
      LET trace == arrays[executions[e].result.steps]
      IN /\ trace = executions[e].pushed
         /\ \A i \in 1..Len(trace) : trace[i].stepNumber = i
         /\ executions[e].result.totalSteps = Len(executions[e].pushed)

====
